---- MODULE Spec2Model ----
(***************************************************************************)
(* Model of src/main.py: a Streamlit script.  Every user interaction       *)
(* re-runs the whole script top to bottom against st.session_state; the    *)
(* only state that survives a run is session_state["raw_dataset"] and the  *)
(* widget values (selected_date, n_dias).  A run that raises stops at the   *)
(* raising line: what was stored before stays stored, nothing after it is   *)
(* rendered.                                                                *)
(*                                                                          *)
(* Values.  A JSON record is modelled with one cell per known key; a cell   *)
(* of kind "nan" is what pd.DataFrame puts where the record lacks the key.  *)
(* A column exists in the DataFrame iff some record has the key.            *)
(*   timestamps : [k |-> "nan" | "bad" | "ts", v |-> hours since day 0 UTC] *)
(*   carrier    : [k |-> "nan" | "str", s |-> sequence of characters]       *)
(*   incidence  : [k |-> kind, v |-> Int]  (see RawIncidenceValues)         *)
(* Calendar dates are day numbers (integers).                               *)
(***************************************************************************)
EXTENDS Integers, Sequences, FiniteSets, TLC

\* ---------------------------------------------------------------- bounds
MaxRecords == 2     \* records in one API response (pipeline specification)
MaxLoaded == 1      \* records in one API response (session specification)
MaxDay == 1         \* selectable dates are 0..MaxDay
MaxDias == 3        \* n_dias ranges over 1..MaxDias
MaxNum == 12        \* numeric incidence values range over -MaxNum..MaxNum

\* ------------------------------------------------------- program constants
LOCAL_TZ == "America/Monterrey"
MinDias == 1
DefaultDias == 3

\* The tz database entry the conversion uses: America/Monterrey is at UTC-6
\* the whole year (no daylight saving time since 2022-10-30).
UtcOffsetHours(tz) == IF tz = "America/Monterrey" THEN 0 - 6 ELSE 0

\* ------------------------------------------------------------ arithmetic
RECURSIVE SumSeq(_)
SumSeq(s) == IF s = <<>> THEN 0 ELSE Head(s) + SumSeq(Tail(s))

\* a / b rounded to the nearest integer, ties to the even one (b > 0): what
\* a ".2f" format and Series.round(2) do to hundredths.
RoundHalfEven(a, b) ==
    LET q == a \div b
        r == a % b
    IN  IF 2 * r < b THEN q
        ELSE IF 2 * r > b THEN q + 1
        ELSE IF q % 2 = 0 THEN q ELSE q + 1

\* floor(h / 24): the calendar day holding hour h.
DayOf(h) == h \div 24

\* ------------------------------------------------------------- to_bool
Ok(b) == [k |-> "ok", b |-> b, exc |-> ""]
Raise(e) == [k |-> "raise", b |-> FALSE, exc |-> e]

\* pd.isna(x) as the `if` of to_bool sees it: a scalar gives a bool; a list
\* gives an array, whose truth value is its element's when it has one element
\* (modelled lists hold non-null elements) and is ambiguous (ValueError) when
\* it has more.
pd_isna(x) ==
    IF x.k \in {"nan", "none"} THEN "true"
    ELSE IF x.k = "list" /\ x.v >= 2 THEN "ambiguous"
    ELSE "false"

\* float(x): a number, NaN, or an exception.
float(x) ==
    IF x.k \in {"num", "numstr"} THEN [k |-> "num", v |-> x.v]
    ELSE IF x.k = "nanstr" THEN [k |-> "nan", v |-> 0]
    ELSE [k |-> "raise", v |-> 0]

to_bool(x) ==
    IF pd_isna(x) = "ambiguous" THEN Raise("ValueError")
    ELSE IF pd_isna(x) = "true" THEN Ok(FALSE)
    ELSE IF x.k = "bool" THEN Ok(x.v # 0)
    ELSE IF float(x).k = "raise" THEN Ok(FALSE)
    ELSE Ok(float(x).k = "nan" \/ float(x).v # 0)

\* -------------------------------------------------------- Time Normalizer
NaT == [k |-> "NaT", v |-> 0]
NaN == [k |-> "nan", v |-> 0]

\* pd.to_datetime(col, utc=True, errors="coerce"): an instant or NaT.
to_datetime(x) == IF x.k = "ts" THEN [k |-> "ts", v |-> x.v] ELSE NaT

\* .dt.tz_convert(LOCAL_TZ) then .dt.date: the date of the local wall clock.
LocalDate(t) ==
    IF t.k = "NaT" THEN NaT
    ELSE [k |-> "date", v |-> DayOf(t.v + UtcOffsetHours(LOCAL_TZ))]

\* ------------------------------------------------------------ DataFrame
Columns == {"carrier", "incidence", "start_date", "delivery_date"}

\* pd.DataFrame(list of dicts): a column exists iff some record has the key.
HasCol(ds, c) == \E i \in DOMAIN ds : ds[i][c].k # "nan"

\* df[col].apply(to_bool) raises as soon as one call raises.
ApplyRaises(ds) == \E i \in DOMAIN ds : to_bool(ds[i].incidence).k = "raise"

\* (_delivery_local - _start_local).dt.total_seconds() / 3600.0, per row.
horas_entrega(d, s) ==
    IF d.k = "NaT" \/ s.k = "NaT" THEN NaN ELSE [k |-> "num", v |-> d.v - s.v]

DateCellUtc(present, x) ==
    IF present /\ to_datetime(x).k = "ts"
    THEN [k |-> "date", v |-> DayOf(to_datetime(x).v)] ELSE NaT

\* The local calendar date a column cell gets: with the column present, the
\* date after tz_convert; with the column absent, the scalar pd.NaT.
DateCell(present, x) == IF present THEN LocalDate(to_datetime(x)) ELSE NaT

Row(ds, i) ==
    LET r == ds[i]
        sl == IF HasCol(ds, "start_date") THEN to_datetime(r.start_date) ELSE NaT
        dl == IF HasCol(ds, "delivery_date") THEN to_datetime(r.delivery_date) ELSE NaT
    IN  [idx |-> i,
         carrier |-> r.carrier,
         incidence |-> IF HasCol(ds, "incidence") THEN to_bool(r.incidence).b ELSE FALSE,
         start_date |-> DateCell(HasCol(ds, "start_date"), r.start_date),
         delivery_date |-> DateCell(HasCol(ds, "delivery_date"), r.delivery_date),
         start_local |-> sl,
         delivery_local |-> dl,
         horas_entrega |-> horas_entrega(dl, sl)]

\* Lines 82-131.  exc/line name the exception that ends the script, if any:
\*  - line 97: to_bool raised inside apply;
\*  - line 130: one of _start_local/_delivery_local is tz-aware (its column
\*    exists: to_datetime(utc=True).tz_convert) and the other is the tz-naive
\*    scalar pd.NaT column; subtracting them is a TypeError.
\* delivery_dtype is "object" (dates from .dt.date) or "datetime64[ns]" (the
\* scalar pd.NaT column).
BuildDf(ds) ==
    LET cols == {c \in Columns : HasCol(ds, c)}
        exc == IF "incidence" \in cols /\ ApplyRaises(ds) THEN "ValueError"
               ELSE IF ("start_date" \in cols) # ("delivery_date" \in cols)
               THEN "TypeError" ELSE ""
        line == IF "incidence" \in cols /\ ApplyRaises(ds) THEN 97
                ELSE IF exc = "TypeError" THEN 130 ELSE 0
    IN  [exc |-> exc,
         line |-> line,
         cols |-> cols,
         delivery_dtype |-> IF "delivery_date" \in cols THEN "object"
                            ELSE "datetime64[ns]",
         rows |-> IF exc = "" THEN [i \in 1..Len(ds) |-> Row(ds, i)] ELSE <<>>]

\* ------------------------------------------------------ Filter & Aggregator
\* df_all["delivery_date"] == selected_date.  An object column compares cell
\* by cell (NaT is never equal); a datetime64 column against a datetime.date
\* is an invalid comparison, which == answers with all False.
mask_fecha(df, selected_date) ==
    [i \in DOMAIN df.rows |->
        /\ df.delivery_dtype = "object"
        /\ df.rows[i].delivery_date.k = "date"
        /\ df.rows[i].delivery_date.v = selected_date]

\* fecha_min = selected_date - timedelta(days=n_dias - 1)
fecha_min(selected_date, n_dias) == selected_date - (n_dias - 1)

\* (delivery_date >= fecha_min) & (delivery_date <= selected_date) on an object
\* column (null cells compare False).
mask_rango(df, selected_date, n_dias) ==
    [i \in DOMAIN df.rows |->
        /\ df.rows[i].delivery_date.k = "date"
        /\ df.rows[i].delivery_date.v >= fecha_min(selected_date, n_dias)
        /\ df.rows[i].delivery_date.v <= selected_date]

\* >= and <= between a datetime64 column and a datetime.date raise TypeError
\* ("Invalid comparison between dtype=datetime64[ns] and date").
mask_rangoRaises(df) == df.delivery_dtype # "object"

\* df_all.loc[mask]: the rows whose mask is True, in order.
RECURSIVE Loc(_, _, _)
Loc(rows, mask, i) ==
    IF i > Len(rows) THEN <<>>
    ELSE (IF mask[i] THEN <<rows[i]>> ELSE <<>>) \o Loc(rows, mask, i + 1)

\* sub["_horas_entrega"].dropna()
RECURSIVE horas_validas(_)
horas_validas(sub) ==
    IF sub = <<>> THEN <<>>
    ELSE (IF Head(sub).horas_entrega.k = "num"
          THEN <<Head(sub).horas_entrega.v>> ELSE <<>>) \o horas_validas(Tail(sub))

\* int(sub["incidence"].sum())
RECURSIVE SumIncidence(_)
SumIncidence(sub) ==
    IF sub = <<>> THEN 0
    ELSE (IF Head(sub).incidence THEN 1 ELSE 0) + SumIncidence(Tail(sub))

ND == [k |-> "N/D", h |-> 0, d |-> 0]

\* f"{promedio_horas:.2f} h (~{promedio_dias:.2f} días)" or "N/D"; h and d are
\* the two printed figures in hundredths.
tiempo_promedio_str(hv) ==
    IF Len(hv) > 0
    THEN [k |-> "h", h |-> RoundHalfEven(100 * SumSeq(hv), Len(hv)),
                     d |-> RoundHalfEven(100 * SumSeq(hv), 24 * Len(hv))]
    ELSE ND

\* f"{porcentaje:.2f}%" in hundredths of a percent; 0.00% for no rows.
porcentaje_incidenciasOffByOne(total_incidencias, total_entregado) ==
    RoundHalfEven(10000 * total_incidencias, total_entregado + 1)

porcentaje_incidencias(total_incidencias, total_entregado) ==
    IF total_entregado > 0
    THEN RoundHalfEven(10000 * total_incidencias, total_entregado)
    ELSE 0

NoSummary ==
    [done |-> FALSE, rows |-> <<>>, total_entregado |-> 0, tiempo_promedio |-> ND,
     total_incidencias |-> 0, porcentaje_incidencias |-> 0]

\* Lines 257-278 and 289-309: the four figures of one subset.
Summary(sub, cols) ==
    LET inc == IF "incidence" \in cols THEN SumIncidence(sub) ELSE 0
    IN  [done |-> TRUE,
         rows |-> [i \in DOMAIN sub |-> sub[i].idx],
         total_entregado |-> Len(sub),
         tiempo_promedio |-> tiempo_promedio_str(horas_validas(sub)),
         total_incidencias |-> inc,
         porcentaje_incidencias |-> porcentaje_incidencias(inc, Len(sub))]

\* --------------------------------------------------- per-carrier aggregation
LowerCase == <<"a", "b", "c", "d", "e", "f", "g", "h", "i", "j", "k", "l", "m",
               "n", "o", "p", "q", "r", "s", "t", "u", "v", "w", "x", "y", "z">>
UpperCase == <<"A", "B", "C", "D", "E", "F", "G", "H", "I", "J", "K", "L", "M",
               "N", "O", "P", "Q", "R", "S", "T", "U", "V", "W", "X", "Y", "Z">>

UpperChar(c) ==
    IF \E i \in DOMAIN LowerCase : LowerCase[i] = c
    THEN UpperCase[CHOOSE i \in DOMAIN LowerCase : LowerCase[i] = c]
    ELSE c

\* .astype(str): a missing carrier (NaN) becomes the string "nan".
astype_str(c) == IF c.k = "nan" THEN <<"n", "a", "n">> ELSE c.s

\* .str.upper()
upper(s) == [i \in DOMAIN s |-> UpperChar(s[i])]

carrier_upper(r) == upper(astype_str(r.carrier))

RECURSIVE RowsOf(_, _)
RowsOf(sub, key) ==
    IF sub = <<>> THEN <<>>
    ELSE (IF carrier_upper(Head(sub)) = key THEN <<Head(sub)>> ELSE <<>>)
         \o RowsOf(Tail(sub), key)

\* Tiempo_promedio_horas ("mean" skips NaN; NaN for a group with none) and
\* Tiempo_promedio_dias (the unrounded mean / 24), each .round(2), in hundredths.
GroupTiempo(hv) ==
    IF Len(hv) > 0
    THEN [k |-> "h", h |-> RoundHalfEven(100 * SumSeq(hv), Len(hv)),
                     d |-> RoundHalfEven(100 * SumSeq(hv), 24 * Len(hv))]
    ELSE [k |-> "nan", h |-> 0, d |-> 0]

AggregateRow(g) ==
    [PAQUETERIA |-> carrier_upper(g[1]),
     rows |-> [i \in DOMAIN g |-> g[i].idx],
     Cantidad_entregas |-> Len(g),
     Tiempo_promedio |-> GroupTiempo(horas_validas(g)),
     Incidencias |-> SumIncidence(g),
     Porcentaje_incidencias |-> RoundHalfEven(10000 * SumIncidence(g), Len(g))]

NoGroup == [state |-> "none", tbl |-> <<>>]

\* Lines 361-386 and 394-419.  state: "table" (st.dataframe), "info" (nothing
\* to group), "KeyError" (agg names the column "incidence", which the frame
\* lacks).  tbl maps each group key to its row.
Group(sub, cols) ==
    IF sub = <<>> \/ "carrier" \notin cols THEN [state |-> "info", tbl |-> <<>>]
    ELSE IF "incidence" \notin cols THEN [state |-> "KeyError", tbl |-> <<>>]
    ELSE [state |-> "table",
          tbl |-> [key \in {carrier_upper(sub[i]) : i \in DOMAIN sub} |->
                      AggregateRow(RowsOf(sub, key))]]

\* ------------------------------------------------------------- load block
None == [k |-> "None", d |-> <<>>]
List(ds) == [k |-> "list", d |-> ds]

\* What requests.get / raise_for_status / response.json() give:
\*   RequestException : network error, timeout or non-2xx status
\*   JSONDecodeError  : 2xx whose body is not JSON (response.json() raises)
\*   list             : a JSON array of records
\*   dict_data        : {"data": [records]}
\*   dict_nodata      : a JSON object without "data"
\*   dict_null        : {"data": null}
\*   scalar           : a JSON number, string, boolean or null

\* Lines 59-68: the value bound to `dataset`.
Normalizar(resp) ==
    IF resp.kind \in {"list", "dict_data"} THEN List(resp.data)
    ELSE IF resp.kind = "dict_null" THEN None
    ELSE List(<<>>)

\* Lines 73-74: whether st.success is shown.
ShowSuccess(stored, raw) == raw.k # "None"

\* Lines 47-74.  stored: line 71 ran.  exc: response.json() raised (line 59).
LoadBlockStoreOnError(prev, clicked, resp) ==
    LET except == clicked /\ resp.kind = "RequestException"
        exc == clicked /\ resp.kind = "JSONDecodeError"
        stored == clicked /\ ~except /\ ~exc
        raw == IF stored THEN Normalizar(resp) ELSE IF except THEN List(<<>>) ELSE prev
    IN  [raw |-> raw,
         stored |-> stored,
         exc |-> IF exc THEN "JSONDecodeError" ELSE "",
         errors |-> (IF except THEN <<"Error al llamar al servicio">> ELSE <<>>)
                    \o (IF clicked /\ resp.kind = "scalar"
                        THEN <<"La respuesta del API no es una lista ni un dict con 'data'.">>
                        ELSE <<>>),
         success |-> clicked /\ ~exc /\ ShowSuccess(stored, raw),
         registros |-> IF clicked /\ ~exc /\ ShowSuccess(stored, raw) THEN Len(raw.d) ELSE 0]

LoadBlock(prev, clicked, resp) ==
    LET except == clicked /\ resp.kind = "RequestException"
        exc == clicked /\ resp.kind = "JSONDecodeError"
        stored == clicked /\ ~except /\ ~exc
        raw == IF stored THEN Normalizar(resp) ELSE prev
    IN  [raw |-> raw,
         stored |-> stored,
         exc |-> IF exc THEN "JSONDecodeError" ELSE "",
         errors |-> (IF except THEN <<"Error al llamar al servicio">> ELSE <<>>)
                    \o (IF clicked /\ resp.kind = "scalar"
                        THEN <<"La respuesta del API no es una lista ni un dict con 'data'.">>
                        ELSE <<>>),
         success |-> clicked /\ ~exc /\ ShowSuccess(stored, raw),
         registros |-> IF clicked /\ ~exc /\ ShowSuccess(stored, raw) THEN Len(raw.d) ELSE 0]

\* ------------------------------------------------------- one script run
NoDf == [exc |-> "", line |-> 0, cols |-> {}, delivery_dtype |-> "object", rows |-> <<>>]

\* One run of src/main.py, top to bottom: the dataset session_state holds
\* afterwards (raw) and everything the run computed and rendered (ui).  exc and
\* line name the uncaught exception that ended the run early, if any.  The run
\* is written as its stages, each handing its values to the next.

\* Lines 311-419: the rendered figures and the two per-carrier tables.
Render(lb, df, built, ranged, df_fecha, df_rango, group_fecha, group_rango) ==
    [raw |-> lb.raw,
     ui |-> [errors |-> lb.errors,
             success |-> lb.success,
             registros |-> lb.registros,
             exc |-> IF lb.exc # "" THEN lb.exc
                     ELSE IF df.exc # "" THEN df.exc
                     ELSE IF built /\ ~ranged THEN "TypeError"
                     ELSE IF "KeyError" \in {group_fecha.state, group_rango.state}
                     THEN "KeyError" ELSE "",
             line |-> IF lb.exc # "" THEN 59
                      ELSE IF df.exc # "" THEN df.line
                      ELSE IF built /\ ~ranged THEN 284
                      ELSE IF group_fecha.state = "KeyError" THEN 367
                      ELSE IF group_rango.state = "KeyError" THEN 400 ELSE 0,
             download |-> built,
             date_input |-> lb.exc = "" /\ df.exc = "",
             number_input |-> built,
             info |-> lb.exc = "" /\ lb.raw.k = "None",
             cols |-> df.cols,
             df_all |-> df.rows,
             fecha |-> IF built THEN Summary(df_fecha, df.cols) ELSE NoSummary,
             rango |-> IF ranged THEN Summary(df_rango, df.cols) ELSE NoSummary,
             group_fecha |-> group_fecha,
             group_rango |-> group_rango]]

\* Lines 361-419: group_rango is reached only if group_fecha did not raise.
Grouped(lb, df, built, ranged, df_fecha, df_rango, group_fecha) ==
    Render(lb, df, built, ranged, df_fecha, df_rango, group_fecha,
           IF ranged /\ group_fecha.state # "KeyError"
           THEN Group(df_rango, df.cols) ELSE NoGroup)

\* Lines 186-287: the two subsets; the range mask may raise (line 284).
Filtered(lb, df, built, ranged, sel, n) ==
    Grouped(lb, df, built, ranged,
            IF built THEN Loc(df.rows, mask_fecha(df, sel), 1) ELSE <<>>,
            IF ranged THEN Loc(df.rows, mask_rango(df, sel, n), 1) ELSE <<>>,
            IF ranged THEN Group(Loc(df.rows, mask_fecha(df, sel), 1), df.cols)
            ELSE NoGroup)

\* Lines 80-131: df_all is built only from a dataset that is not None.
Built(lb, df, sel, n) ==
    Filtered(lb, df,
             lb.exc = "" /\ lb.raw.k = "list" /\ df.exc = "",
             lb.exc = "" /\ lb.raw.k = "list" /\ df.exc = "" /\ ~mask_rangoRaises(df),
             sel, n)

Loaded(lb, sel, n) ==
    Built(lb, IF lb.exc = "" /\ lb.raw.k = "list" THEN BuildDf(lb.raw.d) ELSE NoDf, sel, n)

Script(prev, clicked, resp, sel, n) == Loaded(LoadBlock(prev, clicked, resp), sel, n)

\* --------------------------------------------------------------- inputs
Str(s) == [k |-> "str", s |-> s]
Ts(day, hour) == [k |-> "ts", v |-> 24 * day + hour]
Absent == [k |-> "nan", v |-> 0]

CarrierFedexLower == Str(<<"f", "e", "d", "e", "x">>)
CarrierFedexMixed == Str(<<"F", "e", "d", "E", "x">>)
CarrierAbsent == [k |-> "nan", s |-> <<>>]

\* Raw incidence values a JSON record can carry.
RawIncidenceValues ==
    {[k |-> "nan", v |-> 0], [k |-> "none", v |-> 0],
     [k |-> "bool", v |-> 0], [k |-> "bool", v |-> 1],
     [k |-> "txt", v |-> 0], [k |-> "nanstr", v |-> 0],
     [k |-> "dict", v |-> 0], [k |-> "list", v |-> 1], [k |-> "list", v |-> 2]}
    \cup [k : {"num", "numstr"}, v : (0 - MaxNum)..MaxNum]

NoResp == [kind |-> "none", data |-> <<>>]

Seqs(S, n) == UNION {[1..m -> S] : m \in 0..n}

\* Records of the session specification: a complete record, one without the
\* date keys, and one whose values are all unusable.
SessionRecords ==
    {[carrier |-> CarrierFedexLower, incidence |-> [k |-> "bool", v |-> 1],
      start_date |-> Ts(1, 2), delivery_date |-> Ts(1, 20)],
     [carrier |-> CarrierFedexMixed, incidence |-> [k |-> "num", v |-> 0],
      start_date |-> Absent, delivery_date |-> Absent],
     [carrier |-> CarrierAbsent, incidence |-> [k |-> "txt", v |-> 0],
      start_date |-> [k |-> "bad", v |-> 0], delivery_date |-> [k |-> "bad", v |-> 0]]}

Responses(recs, n) ==
    [kind : {"RequestException", "JSONDecodeError", "dict_nodata", "dict_null", "scalar"},
     data : {<<>>}]
    \cup [kind : {"list", "dict_data"}, data : Seqs(recs, n)]

\* Records of the pipeline specification.  carrier and incidence come in two
\* pairs; start_date is missing or 10:00 UTC of day 1; delivery_date is
\* unparseable, 05:00 UTC of day 1 (23:00 of day 0 in Monterrey) or 18:00 UTC
\* of day 1 (12:00 of day 1 in Monterrey).
CarrierIncidence ==
    {<<CarrierFedexLower, [k |-> "bool", v |-> 1]>>,
     <<CarrierFedexMixed, Absent>>}

ViewRecords ==
    {[carrier |-> ci[1], incidence |-> ci[2], start_date |-> sd, delivery_date |-> dd] :
        ci \in CarrierIncidence,
        sd \in {Absent, Ts(1, 10)},
        dd \in {[k |-> "bad", v |-> 0], Ts(1, 5), Ts(1, 18)}}

\* ---------------------------------------------------------------- state
VARIABLES
    raw_dataset,    \* st.session_state["raw_dataset"]
    selected_date,  \* value of the date_input widget
    n_dias,         \* value of the number_input widget
    run,            \* inputs of the last run: cargar_clicked and the API response
    ui,             \* what the last run computed and rendered
    x,              \* argument of a to_bool call
    to_bool_x       \* its outcome ("pending" before the call)

vars == <<raw_dataset, selected_date, n_dias, run, ui, x, to_bool_x>>

Pending == [k |-> "pending", b |-> FALSE, exc |-> ""]

\* The state a run leaves: what it stored, what it rendered, the widget values
\* it ran with.
Commit(out, clicked, resp, sel, n) ==
    /\ raw_dataset' = out.raw
    /\ ui' = out.ui
    /\ selected_date' = sel
    /\ n_dias' = n
    /\ run' = [cargar_clicked |-> clicked, kind |-> resp.kind, data |-> resp.data]
    /\ UNCHANGED <<x, to_bool_x>>

Rerun(clicked, resp, sel, n) ==
    Commit(Script(raw_dataset, clicked, resp, sel, n), clicked, resp, sel, n)

\* The first run of a session: raw_dataset is None, nothing was clicked.
Init ==
    /\ raw_dataset = None
    /\ selected_date \in 0..MaxDay
    /\ n_dias = DefaultDias
    /\ run = [cargar_clicked |-> FALSE, kind |-> "none", data |-> <<>>]
    /\ ui = Script(None, FALSE, NoResp, selected_date, n_dias).ui
    /\ x = Absent
    /\ to_bool_x = Pending

ClickLoadWith(resp) == Rerun(TRUE, resp, selected_date, n_dias)

ClickLoad == \E resp \in Responses(SessionRecords, MaxLoaded) : ClickLoadWith(resp)

ChangeDate ==
    /\ ui.date_input
    /\ \E d \in 0..MaxDay :
          /\ d # selected_date
          /\ Rerun(FALSE, NoResp, d, n_dias)

ChangeWindow ==
    /\ ui.number_input
    /\ \E n \in MinDias..MaxDias :
          /\ n # n_dias
          /\ Rerun(FALSE, NoResp, selected_date, n)

ClickDownload ==
    /\ ui.download
    /\ Rerun(FALSE, NoResp, selected_date, n_dias)

\* Streamlit's own "Rerun" command (menu or the R key): the script runs again
\* with nothing clicked and the widgets as they are.
PlainRerun == Rerun(FALSE, NoResp, selected_date, n_dias)

Next == ClickLoad \/ ChangeDate \/ ChangeWindow \/ ClickDownload \/ PlainRerun

Spec == Init /\ [][Next]_vars

\* The pipeline on every dataset of the bounded domain: the state a rerun
\* leaves once a load has stored it, then the reruns that can follow.  The
\* date widget starts on today, whichever day that is; the window widget
\* starts on its default.
InitView ==
    /\ selected_date \in 0..MaxDay
    /\ n_dias = DefaultDias
    /\ \E ds \in Seqs(ViewRecords, MaxRecords) :
          /\ raw_dataset = List(ds)
          /\ ui = Script(List(ds), FALSE, NoResp, selected_date, n_dias).ui
    /\ run = [cargar_clicked |-> FALSE, kind |-> "none", data |-> <<>>]
    /\ x = Absent
    /\ to_bool_x = Pending

NextView == ChangeDate \/ ChangeWindow \/ ClickDownload \/ PlainRerun

SpecView == InitView /\ [][NextView]_vars

\* to_bool on every raw incidence value of the bounded domain.
InitBool ==
    /\ raw_dataset = None
    /\ selected_date = 0
    /\ n_dias = DefaultDias
    /\ run = [cargar_clicked |-> FALSE, kind |-> "none", data |-> <<>>]
    /\ ui = Script(None, FALSE, NoResp, selected_date, n_dias).ui
    /\ x \in RawIncidenceValues
    /\ to_bool_x = Pending

Call_to_bool ==
    /\ to_bool_x = Pending
    /\ to_bool_x' = to_bool(x)
    /\ UNCHANGED <<raw_dataset, selected_date, n_dias, run, ui, x>>

NextBool == Call_to_bool

SpecBool == InitBool /\ [][NextBool]_vars

\* ================================================================ claims
\* What the claims speak of, read off the raw records and the widget values.
Range(f) == {f[j] : j \in DOMAIN f}

Abs(a) == IF a < 0 THEN 0 - a ELSE a

\* The Monterrey calendar day of UTC hour v: before 06:00 UTC it is still the
\* previous day there.
ExpectedLocalDay(v) == IF v % 24 < 6 THEN (v \div 24) - 1 ELSE v \div 24

HasInstant(c) == c.k = "ts"

OnDate(i) ==
    /\ HasInstant(raw_dataset.d[i].delivery_date)
    /\ ExpectedLocalDay(raw_dataset.d[i].delivery_date.v) = selected_date

InWindow(i) ==
    /\ HasInstant(raw_dataset.d[i].delivery_date)
    /\ selected_date - (n_dias - 1) <= ExpectedLocalDay(raw_dataset.d[i].delivery_date.v)
    /\ ExpectedLocalDay(raw_dataset.d[i].delivery_date.v) <= selected_date

HasLeadTime(i) ==
    HasInstant(raw_dataset.d[i].start_date) /\ HasInstant(raw_dataset.d[i].delivery_date)

Summaries == {ui.fecha, ui.rango}

\* Responses that are a failed fetch or no list of records / object with a
\* `data` list.
FailureKinds ==
    {"RequestException", "JSONDecodeError", "dict_nodata", "dict_null", "scalar"}

\* C1: a load whose fetch fails, or whose response is not a list of records or
\* an object with a `data` list, leaves the session-held dataset as it was and
\* surfaces an error.
C1_FailedLoadKeepsDataset ==
    [][(run'.cargar_clicked /\ run'.kind \in FailureKinds)
          => /\ raw_dataset' = raw_dataset
             /\ (ui'.errors # <<>> \/ ui'.exc # "")]_vars

C3_RangeSubsetIsClosedWindow ==
    ui.fecha.done =>
        /\ ui.rango.done
        /\ Range(ui.rango.rows) = {i \in DOMAIN raw_dataset.d : InWindow(i)}
        /\ n_dias = 1 => ui.rango.rows = ui.fecha.rows

\* C4: every summary has count = number of rows of its subset, incidence count
\* = number of those rows with incidence true, incidence percentage = 100 *
\* incidences / count (to the printed hundredth) when count > 0 and 0.00 when
\* count = 0, and average lead time "N/D" exactly when no row of the subset has
\* a lead time; the summary of a zero-row subset is all of 0, 0, 0.00, "N/D".
C4_SummaryFigures ==
    \A s \in Summaries :
        s.done =>
            /\ s.total_entregado = Len(s.rows)
            /\ s.total_incidencias =
                  Cardinality({j \in DOMAIN s.rows : ui.df_all[s.rows[j]].incidence})
            /\ s.total_entregado > 0 =>
                  2 * Abs(s.porcentaje_incidencias * s.total_entregado
                          - 10000 * s.total_incidencias) <= s.total_entregado
            /\ s.total_entregado = 0 =>
                  /\ s.porcentaje_incidencias = 0
                  /\ s.total_incidencias = 0
            /\ (s.tiempo_promedio.k = "N/D")
                  <=> (\A j \in DOMAIN s.rows : ~HasLeadTime(s.rows[j]))

\* C4 witness: the exact-date subset has no row while the range subset has
\* rows with and without incidence and with and without a lead time.
C4_Witness ==
    /\ ui.fecha.done /\ ui.rango.done
    /\ ui.fecha.total_entregado = 0
    /\ ui.fecha.tiempo_promedio.k = "N/D"
    /\ ui.rango.total_incidencias > 0
    /\ ui.rango.total_incidencias < ui.rango.total_entregado
    /\ ui.rango.tiempo_promedio.k = "h"
    /\ \E j \in DOMAIN ui.rango.rows : ~HasLeadTime(ui.rango.rows[j])

\* C5: a record whose start_date or delivery_date is missing or unparseable has
\* a null lead time, and only such a record; it is left out of a subset's
\* average lead time and still counted in the subset's count.
C5_NullLeadTimeIffMissingInstant ==
    raw_dataset.k = "list" =>
        /\ Len(ui.df_all) = Len(raw_dataset.d)
        /\ \A i \in DOMAIN raw_dataset.d :
              (ui.df_all[i].horas_entrega.k = "nan") <=> ~HasLeadTime(i)
        /\ \A s \in Summaries :
              s.done =>
                 /\ s.total_entregado = Len(s.rows)
                 /\ (s.tiempo_promedio.k = "N/D")
                       <=> (\A j \in DOMAIN s.rows : ~HasLeadTime(s.rows[j]))

\* C6: to_bool is total onto the booleans: it never raises, null, NaN, 0, "0",
\* false and every value that is no number give false, true and every nonzero
\* number give true.
C6_ToBoolTotal ==
    to_bool_x # Pending =>
        /\ to_bool_x.k = "ok"
        /\ (\/ x.k \in {"nan", "none", "txt", "dict", "list"}
            \/ x.k \in {"bool", "num", "numstr"} /\ x.v = 0) => ~to_bool_x.b
        /\ (x.k \in {"bool", "num"} /\ x.v # 0) => to_bool_x.b

GroupPartitions(s, g) ==
    (s.done /\ s.rows # <<>> /\ "carrier" \in ui.cols) =>
        /\ g.state = "table"
        /\ \A j \in DOMAIN s.rows :
              Cardinality({key \in DOMAIN g.tbl : s.rows[j] \in Range(g.tbl[key].rows)}) = 1
        /\ \A key \in DOMAIN g.tbl :
              /\ Range(g.tbl[key].rows) \subseteq Range(s.rows)
              /\ \A i \in Range(g.tbl[key].rows) :
                    raw_dataset.d[i].carrier \in {CarrierFedexLower, CarrierFedexMixed}
                        <=> key = <<"F", "E", "D", "E", "X">>
              /\ g.tbl[key].Cantidad_entregas = Len(g.tbl[key].rows)
              /\ g.tbl[key].Incidencias =
                    Cardinality({i \in Range(g.tbl[key].rows) : ui.df_all[i].incidence})
              /\ 2 * Abs(g.tbl[key].Porcentaje_incidencias * g.tbl[key].Cantidad_entregas
                         - 10000 * g.tbl[key].Incidencias) <= g.tbl[key].Cantidad_entregas

\* C7: the per-carrier aggregation of a non-empty subset partitions its rows by
\* upper-cased carrier ("fedex" and "FedEx" both under "FEDEX"), and each
\* group's count, incidence count and incidence percentage are its own rows'.
C7_CarrierGroupsPartition ==
    /\ GroupPartitions(ui.fecha, ui.group_fecha)
    /\ GroupPartitions(ui.rango, ui.group_rango)

\* C8: with any of the known columns absent from the loaded dataset, the
\* zero-record dataset included, the exact-date filter, the range filter, the
\* summaries and the per-carrier aggregations all complete without raising.
C8_MissingColumnsNeverRaise ==
    raw_dataset.k = "list" =>
        /\ ui.exc = ""
        /\ ui.fecha.done /\ ui.rango.done
        /\ ui.group_fecha.state \in {"table", "info"}
        /\ ui.group_rango.state \in {"table", "info"}

\* C9: a record's local delivery date is the calendar date after conversion to
\* the target zone (UTC-6): a timestamp before 06:00 UTC falls on the previous
\* day; the exact-date and range filters select by that local date.
C9_LocalDateBucketing ==
    /\ \A i \in DOMAIN ui.df_all :
          HasInstant(raw_dataset.d[i].delivery_date) =>
              /\ ui.df_all[i].delivery_date.k = "date"
              /\ ui.df_all[i].delivery_date.v =
                    ExpectedLocalDay(raw_dataset.d[i].delivery_date.v)
    /\ ui.fecha.done =>
          Range(ui.fecha.rows) = {i \in DOMAIN raw_dataset.d : OnDate(i)}
    /\ ui.rango.done =>
          Range(ui.rango.rows) = {i \in DOMAIN raw_dataset.d : InWindow(i)}

\* C9 witness: a record delivered at 05:00 UTC of day 1 is in the exact-date
\* subset of day 0, and one delivered at 18:00 UTC of day 1 is not.
C9_Witness ==
    /\ selected_date = 0
    /\ ui.fecha.done /\ ui.rango.done
    /\ \E i \in Range(ui.fecha.rows) : raw_dataset.d[i].delivery_date = Ts(1, 5)
    /\ \E i \in DOMAIN raw_dataset.d :
          /\ raw_dataset.d[i].delivery_date = Ts(1, 18)
          /\ i \notin Range(ui.fecha.rows)

\* C10: the success notice is shown only by a load whose fetch succeeded and
\* stored the fetched dataset; a load whose fetch failed reports the failure
\* once and shows no success notice.
C10_SuccessOnlyAfterStoringFetch ==
    /\ ui.success =>
          /\ run.cargar_clicked
          /\ run.kind \notin {"RequestException", "JSONDecodeError"}
    /\ (run.cargar_clicked /\ run.kind = "RequestException") =>
          /\ Len(ui.errors) = 1
          /\ ~ui.success

====
